---- MODULE Spec2Model ----
(***************************************************************************)
(* State-machine model of the request-resilience and access-control core   *)
(* of sample-openrouter-backend:                                           *)
(*   - OpenRouterClient._make_request_with_retry (app/openrouter_client.py)*)
(*   - JWTTokenManager / get_current_user        (app/auth.py)             *)
(* Time and durations are counted in ticks of 1/Resolution second.         *)
(***************************************************************************)
EXTENDS Integers, Sequences, FiniteSets, TLC

\* ------------------------------------------------------------------ bounds
\* ticks per second
Resolution == 2
\* largest MAX_RETRIES explored
MaxR == 3
\* largest RETRY_DELAY_BASE explored, in ticks
MaxBase == 3
\* largest integer Retry-After header value explored, in seconds
MaxHint == 2
\* largest MAX_RETRIES explored with several calls in flight
MaxRConcurrent == 1
\* last tick of the clock
MaxTime == 6
\* largest explicit expires_delta explored, in ticks
MaxTtl == 3
\* most tokens issued in one run
MaxIssued == 1
\* largest hit count the base limiter's storage is explored with
MaxHits == 2
\* largest RATE_LIMIT_REQUESTS explored
MaxCeiling == 2

\* ------------------------------------------------------- executor: values
Calls == {"c1", "c2"}

RECURSIVE Pow2(_)
Pow2(n) == IF n <= 0 THEN 1 ELSE 2 * Pow2(n - 1)

\* The Retry-After header of a response: absent, an integer string, or any
\* other text (an HTTP-date, "1.5", ...).
RetryAfterValues ==
    {[form |-> "absent", n |-> 0], [form |-> "text", n |-> 0]}
    \cup {[form |-> "int", n |-> h] : h \in 1..MaxHint}

NoHeader == [form |-> "absent", n |-> 0]

\* What one `await self.client.request(...)` can produce: a response with a
\* status code, or a raised exception of one of the classes the handler
\* distinguishes.
Outcomes ==
    {[kind |-> "response", status |-> 200, retry_after |-> NoHeader]}
    \cup {[kind |-> "response", status |-> 429, retry_after |-> ra] : ra \in RetryAfterValues}
    \cup {[kind |-> "response", status |-> s, retry_after |-> NoHeader] : s \in {400, 503}}
    \cup {[kind |-> k, status |-> 0, retry_after |-> NoHeader] :
            k \in {"TimeoutException", "RequestError", "Exception"}}

NoResponse == [kind |-> "none", status |-> 0, retry_after |-> NoHeader]

NoException == [type |-> "None", status_code |-> 0, message |-> ""]

OpenRouterError(message, status_code) ==
    [type |-> "OpenRouterError", status_code |-> status_code, message |-> message]

RetryExhaustedError(message) ==
    [type |-> "RetryExhaustedError", status_code |-> 500, message |-> message]

\* ---------------------------------------------------------------- state
VARIABLES
    max_retries,        \* settings.MAX_RETRIES
    retry_delay_base,   \* settings.RETRY_DELAY_BASE, in ticks
    calls,              \* the executor calls made in this run
    pc,                 \* per call: "idle", "request", "sleeping", "returned", "raised"
    attempt,            \* per call: the loop index
    last_exception,     \* per call: the local last_exception
    retval,             \* per call: the response returned
    raised,             \* per call: the exception raised
    hist,               \* per call: what each attempt produced, in order
    delays,             \* per call: the asyncio.sleep durations taken, in ticks
    surfaced            \* per call: the exception process_request raises to ask_llm

execVars == <<max_retries, retry_delay_base, calls, pc, attempt, last_exception,
              retval, raised, hist, delays, surfaced>>

VARIABLES
    auth_manager_class, \* settings.AUTH_MANAGER_CLASS
    now,                \* the clock, in ticks
    issued,             \* the tokens create_access_token has returned
    verification        \* the most recent verification: its input, time and result

authVars == <<auth_manager_class, now, issued, verification>>

VARIABLES
    backendOp           \* the most recent login or token generation and its result

VARIABLES
    PROMPTS,            \* PromptManager.PROMPTS: name -> [template, description]
    regOp,              \* the most recent registry operation and its result
    resolving           \* the _get_stored_prompt call in progress, step by step

registryVars == <<PROMPTS, regOp, resolving>>

VARIABLES
    trusted_ips,        \* CustomLimiter.trusted_ips
    rate_limit_requests,\* settings.RATE_LIMIT_REQUESTS
    window_table,       \* the hit counts the base limiter keeps, one per key
    admission           \* the most recent call of _is_rate_limit_exceeded

limiterVars == <<trusted_ips, rate_limit_requests, window_table, admission>>

VARIABLES
    req,                \* the /ask-llm requests in flight, one per slot
    handled             \* per address, the requests that entered the handler

pipelineVars == <<req, handled>>

vars == <<execVars, authVars, backendOp, registryVars, limiterVars, pipelineVars>>

\* ------------------------------------------------- rate limiter
Addresses == {"10.0.0.1", "10.0.0.2"}

\* What the call of the base class's _is_rate_limit_exceeded (slowapi, line
\* 29) may give: False, True, or an exception.
BaseOutcomes == {"admitted", "throttled", "error"}

\* settings.RATE_LIMIT_REQUESTS, config.py line 19.
RATE_LIMIT_REQUESTS == 10

NoAdmission == [called |-> FALSE, address |-> "", result |-> ""]

\* Faulty variant of the trust test: no address is trusted.
IsTrustedIpNever(trusted, client_ip) == FALSE

\* CustomLimiter.is_trusted_ip, rate_limiter.py lines 18-21.
IsTrustedIp(trusted, client_ip) == client_ip \in trusted

\* CustomLimiter._is_rate_limit_exceeded(request, key, limit, window),
\* rate_limiter.py lines 23-29: False for a trusted address, before anything
\* else is looked at; the base class decides, on its own storage, otherwise.
IsRateLimitExceeded ==
    /\ \E client_ip \in Addresses :
         IF IsTrustedIp(trusted_ips, client_ip)
         THEN /\ admission' = [called |-> TRUE, address |-> client_ip, result |-> "admitted"]
              /\ window_table' = window_table
         ELSE \E res \in BaseOutcomes, hits \in 0..MaxHits :
                /\ admission' = [called |-> TRUE, address |-> client_ip, result |-> res]
                /\ window_table' = [window_table EXCEPT ![client_ip] = hits]
    /\ UNCHANGED <<trusted_ips, rate_limit_requests, pipelineVars, execVars, authVars,
                   backendOp, registryVars>>

LimiterIdle ==
    /\ trusted_ips = {}
    /\ rate_limit_requests = RATE_LIMIT_REQUESTS
    /\ window_table = [a \in Addresses |-> 0]
    /\ admission = NoAdmission

\* ------------------------------------------------- prompt registry
\* A template is the sequence of its literal texts and replacement fields.
Text(s) == [kind |-> "text", s |-> s]

Field(s) == [kind |-> "field", s |-> s]

\* The field names that the pattern \{(\w+)\} matches: names of word
\* characters only.
WordNames == {"company_name", "industry", "text", "code", "question", "name"}

BuiltInNames == {"company_analysis", "text_summary", "code_review", "general_question"}

\* PromptManager.PROMPTS as the class body sets it, prompts.py lines 12-78.
SeededPrompts ==
    [n \in BuiltInNames |->
        CASE n = "company_analysis" ->
               [template |-> <<Text("Company: "), Field("company_name"),
                               Text("Industry: "), Field("industry"),
                               Text("Additional Context: "),
                               Field("additional_context if additional_context else 'None provided'"),
                               Text("Please provide: ...")>>,
                description |-> "Analyze a company's market position, strengths, and opportunities"]
          [] n = "text_summary" ->
               [template |-> <<Text("Text: "), Field("text"), Text("Requirements: ...")>>,
                description |-> "Provide comprehensive summaries of text content"]
          [] n = "code_review" ->
               [template |-> <<Text("Code: "), Field("code"), Text("Language: "),
                               Field("language if language else 'Not specified'"),
                               Text("Please provide: ...")>>,
                description |-> "Review code for quality, security, and best practices"]
          [] OTHER ->
               [template |-> <<Text("Question: "), Field("question"),
                               Text("Additional Context: "),
                               Field("context if context else 'None provided'"),
                               Text("Please provide a clear answer ...")>>,
                description |-> "Answer general questions with comprehensive responses"]]

\* The names, templates, descriptions and data the operations are tried with.
CustomNames == {"greeting"}

OpNames == {"company_analysis", "text_summary"} \cup CustomNames

NewTemplates == {<<Text("Hello "), Field("name")>>, <<Text("No placeholders")>>}

NewDescriptions == {"", "A greeting"}

DataKeys == {"text", "name", "company_name", "industry", "additional_context"}

\* The sets of keys the data mappings are tried with.
DataKeySets ==
    {{}, {"text"}, {"name"}, {"name", "text"}, {"company_name", "industry"},
     {"company_name", "industry", "additional_context"}}

DataChoices == UNION {[K -> {"v"}] : K \in DataKeySets \cap SUBSET DataKeys}

\* The outcome of a registry operation: a value, or a raised exception with
\* the pieces of its message and the variables it reports missing.
Done(value) ==
    [ok |-> TRUE, value |-> value, error |-> "", message |-> <<>>, missing |-> {}]

Fails(error, message, missing) ==
    [ok |-> FALSE, value |-> <<>>, error |-> error, message |-> message, missing |-> missing]

NoRegOp ==
    [op |-> "", name |-> "", template |-> <<>>, description |-> "", data |-> <<>>,
     data_out |-> <<>>, result |-> Done(<<>>)]

\* re.findall(r'\{(\w+)\}', template), as a set.
Variables(template) ==
    {template[i].s : i \in {j \in DOMAIN template :
                               template[j].kind = "field" /\ template[j].s \in WordNames}}

\* str(KeyError(key)).strip("'"): the repr of a key with a single quote in it
\* is written in double quotes, which strip("'") leaves in place.
MissingVar(key) == IF key \in WordNames THEN <<key>> ELSE <<"\"", key, "\"">>

\* template.format(**data): the pieces of the text with every field replaced
\* by the value of its name in data; KeyError at the first name data lacks.
RECURSIVE Format(_, _)
Format(template, data) ==
    IF template = <<>> THEN Done(<<>>)
    ELSE LET part == Head(template)
             rest == Format(Tail(template), data)
         IN  IF part.kind = "field" /\ part.s \notin DOMAIN data
             THEN Fails("KeyError", <<part.s>>, {})
             ELSE IF ~rest.ok THEN rest
             ELSE Done(<<IF part.kind = "field" THEN data[part.s] ELSE part.s>> \o rest.value)

\* PromptManager.get_prompt, prompts.py lines 80-115.
GetPrompt(prompts, prompt_name, data) ==
    IF prompt_name \notin DOMAIN prompts
    THEN Fails("ValueError", <<"Unknown prompt name: ", prompt_name>>, {})
    ELSE LET r == Format(prompts[prompt_name].template, data)
         IN  IF r.ok THEN r
             ELSE IF r.error = "KeyError"
             THEN Fails("ValueError",
                        <<"Missing required variable '">> \o MissingVar(r.message[1])
                            \o <<"' for prompt '", prompt_name, "'">>, {})
             ELSE Fails("ValueError",
                        <<"Error formatting prompt '", prompt_name, "': ">> \o r.message, {})

\* PromptManager.validate_prompt_data, prompts.py lines 117-149.
ValidatePromptData(prompts, prompt_name, data) ==
    IF prompt_name \notin DOMAIN prompts
    THEN Fails("ValueError", <<"Unknown prompt name: ", prompt_name>>, {})
    ELSE LET missing_vars == Variables(prompts[prompt_name].template) \ DOMAIN data
         IN  IF missing_vars # {}
             THEN Fails("ValueError",
                        <<"Missing required variables for prompt '", prompt_name, "': ">>,
                        missing_vars)
             ELSE Done(<<>>)

\* The except clauses of _get_stored_prompt, services.py lines 111-114: a
\* ValueError becomes a PromptError of the same message.
AsPromptError(prompt_name, r) ==
    IF r.ok THEN r
    ELSE IF r.error = "ValueError" THEN Fails("PromptError", r.message, r.missing)
    ELSE Fails("PromptError",
               <<"Failed to process prompt '", prompt_name, "': ">> \o r.message, r.missing)

\* LLMService._get_stored_prompt, services.py lines 90-114: validation, then
\* formatting.
GetStoredPrompt(prompts, prompt_name, data) ==
    LET v == ValidatePromptData(prompts, prompt_name, data)
        r == IF v.ok THEN GetPrompt(prompts, prompt_name, data) ELSE v
    IN  AsPromptError(prompt_name, r)

\* The text of a template as it was written, fields in braces.
Raw(template) ==
    [i \in DOMAIN template |->
        IF template[i].kind = "field" THEN "{" \o template[i].s \o "}" ELSE template[i].s]

\* LLMService._format_direct_prompt, services.py lines 116-147.
FormatDirectPrompt(prompt_text, data) ==
    IF DOMAIN data = {} THEN Done(Raw(prompt_text))
    ELSE LET r == Format(prompt_text, data)
         IN  IF r.ok THEN r
             ELSE IF r.error = "KeyError"
             THEN Fails("PromptError",
                        <<"Missing required variable '">> \o MissingVar(r.message[1])
                            \o <<"' in direct prompt">>, {})
             ELSE Fails("PromptError", <<"Error formatting direct prompt: ">> \o r.message, {})

\* The registry and the result of an operation on it.
Outcome(prompts, result) == [prompts |-> prompts, result |-> result]

\* except Exception of add_prompt, update_prompt and remove_prompt: every
\* exception is raised again as a ValueError whose message begins with the
\* operation and carries the first message.
Rewrap(prefix, prompt_name, o) ==
    IF o.result.ok THEN o
    ELSE Outcome(o.prompts,
                 Fails("ValueError", <<prefix, prompt_name, "': ">> \o o.result.message,
                       o.result.missing))

\* Faulty variant of the try block of add_prompt: an existing name is
\* overwritten.
AddPromptTryOverwrites(prompts, prompt_name, prompt_template, description) ==
    Outcome([n \in DOMAIN prompts \cup {prompt_name} |->
                IF n = prompt_name
                THEN [template |-> prompt_template,
                      description |-> IF description # "" THEN description
                                      ELSE "Custom prompt template: " \o prompt_name]
                ELSE prompts[n]],
            Done(<<>>))

\* The try block of add_prompt, prompts.py lines 180-202.
AddPromptTry(prompts, prompt_name, prompt_template, description) ==
    IF prompt_name \in DOMAIN prompts
    THEN Outcome(prompts, Fails("ValueError", <<"Prompt '", prompt_name, "' already exists">>, {}))
    ELSE Outcome([n \in DOMAIN prompts \cup {prompt_name} |->
                     IF n = prompt_name
                     THEN [template |-> prompt_template,
                           description |-> IF description # "" THEN description
                                           ELSE "Custom prompt template: " \o prompt_name]
                     ELSE prompts[n]],
                 Done(<<>>))

\* PromptManager.add_prompt, prompts.py lines 164-207.
AddPromptOn(prompts, prompt_name, prompt_template, description) ==
    Rewrap("Error adding prompt '", prompt_name,
           AddPromptTry(prompts, prompt_name, prompt_template, description))

\* Faulty variant of the try block of remove_prompt: built-in names are
\* removed like any other.
RemovePromptTryUnprotected(prompts, prompt_name) ==
    IF prompt_name \notin DOMAIN prompts
    THEN Outcome(prompts, Fails("ValueError", <<"Prompt '", prompt_name, "' does not exist">>, {}))
    ELSE Outcome([n \in DOMAIN prompts \ {prompt_name} |-> prompts[n]], Done(<<>>))

\* The try block of remove_prompt, prompts.py lines 225-241.
RemovePromptTry(prompts, prompt_name) ==
    IF prompt_name \notin DOMAIN prompts
    THEN Outcome(prompts, Fails("ValueError", <<"Prompt '", prompt_name, "' does not exist">>, {}))
    ELSE IF prompt_name \in BuiltInNames
    THEN Outcome(prompts,
                 Fails("ValueError", <<"Cannot remove built-in prompt '", prompt_name, "'">>, {}))
    ELSE Outcome([n \in DOMAIN prompts \ {prompt_name} |-> prompts[n]], Done(<<>>))

\* PromptManager.remove_prompt, prompts.py lines 209-246.
RemovePromptOn(prompts, prompt_name) ==
    Rewrap("Error removing prompt '", prompt_name, RemovePromptTry(prompts, prompt_name))

\* The try block of update_prompt, prompts.py lines 265-289.
UpdatePromptTry(prompts, prompt_name, new_template, new_description) ==
    IF prompt_name \notin DOMAIN prompts
    THEN Outcome(prompts, Fails("ValueError", <<"Prompt '", prompt_name, "' does not exist">>, {}))
    ELSE Outcome([prompts EXCEPT ![prompt_name] =
                     [template |-> new_template,
                      description |-> IF new_description # "" THEN new_description
                                      ELSE @.description]],
                 Done(<<>>))

\* PromptManager.update_prompt, prompts.py lines 248-294.
UpdatePromptOn(prompts, prompt_name, new_template, new_description) ==
    Rewrap("Error updating prompt '", prompt_name,
           UpdatePromptTry(prompts, prompt_name, new_template, new_description))

AddPrompt ==
    /\ \E n \in OpNames, t \in NewTemplates, d \in NewDescriptions :
         LET o == AddPromptOn(PROMPTS, n, t, d)
         IN  /\ PROMPTS' = o.prompts
             /\ regOp' = [op |-> "add", name |-> n, template |-> t, description |-> d,
                          data |-> <<>>, data_out |-> <<>>,
                          result |-> o.result]
    /\ UNCHANGED <<resolving, execVars, authVars, backendOp, limiterVars, pipelineVars>>

UpdatePrompt ==
    /\ \E n \in OpNames, t \in NewTemplates, d \in NewDescriptions :
         LET o == UpdatePromptOn(PROMPTS, n, t, d)
         IN  /\ PROMPTS' = o.prompts
             /\ regOp' = [op |-> "update", name |-> n, template |-> t, description |-> d,
                          data |-> <<>>, data_out |-> <<>>,
                          result |-> o.result]
    /\ UNCHANGED <<resolving, execVars, authVars, backendOp, limiterVars, pipelineVars>>

RemovePrompt ==
    /\ \E n \in OpNames :
         LET o == RemovePromptOn(PROMPTS, n)
         IN  /\ PROMPTS' = o.prompts
             /\ regOp' = [op |-> "remove", name |-> n, template |-> <<>>, description |-> "",
                          data |-> <<>>, data_out |-> <<>>,
                          result |-> o.result]
    /\ UNCHANGED <<resolving, execVars, authVars, backendOp, limiterVars, pipelineVars>>

\* The texts resolve_literal is tried with.
LiteralTexts == NewTemplates

\* What a resolution leaves behind: the registry, the caller's mapping, and
\* the result.
Resolved(prompts, data, result) == [prompts |-> prompts, data |-> data, result |-> result]

\* Faulty variant of the stored-prompt resolution: the substituted text is
\* kept in the registry as the template.
ResolveOnCachingText(prompts, prompt_name, data) ==
    LET r == GetStoredPrompt(prompts, prompt_name, data)
    IN  Resolved(IF r.ok
                    THEN [prompts EXCEPT ![prompt_name].template =
                             [i \in DOMAIN r.value |-> Text(r.value[i])]]
                    ELSE prompts,
                    data, r)

\* _get_stored_prompt with validate_prompt_data and get_prompt: both read
\* PROMPTS and data (data or {}, set(data.keys()), format(**data)) and assign
\* to neither.
ResolveOn(prompts, prompt_name, data) ==
    Resolved(prompts, data, GetStoredPrompt(prompts, prompt_name, data))

\* _format_direct_prompt reads its arguments only.
ResolveLiteralOn(prompts, prompt_text, data) ==
    Resolved(prompts, data, FormatDirectPrompt(prompt_text, data))

ResolvePrompt ==
    /\ \E n \in OpNames, data \in DataChoices :
         LET o == ResolveOn(PROMPTS, n, data)
         IN  /\ PROMPTS' = o.prompts
             /\ regOp' = [op |-> "resolve", name |-> n, template |-> <<>>, description |-> "",
                          data |-> data, data_out |-> o.data, result |-> o.result]
    /\ UNCHANGED <<resolving, execVars, authVars, backendOp, limiterVars, pipelineVars>>

ResolveLiteral ==
    /\ \E t \in LiteralTexts, data \in DataChoices :
         LET o == ResolveLiteralOn(PROMPTS, t, data)
         IN  /\ PROMPTS' = o.prompts
             /\ regOp' = [op |-> "resolve_literal", name |-> "", template |-> t,
                          description |-> "", data |-> data, data_out |-> o.data,
                          result |-> o.result]
    /\ UNCHANGED <<resolving, execVars, authVars, backendOp, limiterVars, pipelineVars>>

\* The template body a call reads: prompt_data["template"] of the entry under
\* the name (prompts.py lines 98-99 and 135-136), when the name is a key.
BodyRead(prompts, prompt_name) ==
    IF prompt_name \in DOMAIN prompts
    THEN [found |-> TRUE, template |-> prompts[prompt_name].template]
    ELSE [found |-> FALSE, template |-> <<>>]

NoResolving ==
    [stage |-> "idle", name |-> "", data |-> <<>>,
     checked |-> BodyRead(<<>>, ""), substituted |-> BodyRead(<<>>, ""),
     result |-> Done(<<>>)]

\* Faulty variant of the scheduling: the resolver runs beside the other
\* handlers (a worker thread, or an await between its two calls).
EventLoopFreeAlways == TRUE

\* _get_stored_prompt is a plain `def` called from the coroutine
\* process_request, and every endpoint is an `async def` on the one event
\* loop: from its first line to its return no other handler runs.
EventLoopFree == resolving.stage # "validated"

\* self.prompt_manager.validate_prompt_data(prompt_name, data), services.py
\* line 106: the first of the two calls of _get_stored_prompt.
ValidateStep ==
    /\ resolving.stage \in {"idle", "done"}
    /\ \E n \in OpNames, data \in DataChoices :
         LET v == ValidatePromptData(PROMPTS, n, data)
         IN  resolving' = [stage |-> IF v.ok THEN "validated" ELSE "done",
                           name |-> n, data |-> data,
                           checked |-> BodyRead(PROMPTS, n),
                           substituted |-> BodyRead(<<>>, ""),
                           result |-> AsPromptError(n, v)]
    /\ UNCHANGED <<PROMPTS, regOp, execVars, authVars, backendOp, limiterVars, pipelineVars>>

\* return self.prompt_manager.get_prompt(prompt_name, data), services.py line
\* 109: the second call, on the registry as it is now.
FormatStep ==
    /\ resolving.stage = "validated"
    /\ resolving' = [resolving EXCEPT
                        !.stage = "done",
                        !.substituted = BodyRead(PROMPTS, resolving.name),
                        !.result = AsPromptError(resolving.name,
                                       GetPrompt(PROMPTS, resolving.name, resolving.data))]
    /\ UNCHANGED <<PROMPTS, regOp, execVars, authVars, backendOp, limiterVars, pipelineVars>>

RegistryIdle ==
    /\ PROMPTS = SeededPrompts
    /\ regOp = NoRegOp
    /\ resolving = NoResolving

\* ----------------------------------------------------------- auth: values
Subjects == {"alice", "bob"}

\* settings.SECRET_KEY, and a key an outsider signs with.
SECRET_KEY == "secret"

Keys == {SECRET_KEY, "other"}

\* settings.ACCESS_TOKEN_EXPIRE_MINUTES
ACCESS_TOKEN_EXPIRE_MINUTES == 60

ManagerNames == {"JWTTokenManager", "DefaultAuthManager", "no.such.Manager"}

\* Largest exp claim, in seconds, of a token an explicit expires_delta gives.
MaxExp == (MaxTime + MaxTtl) \div Resolution

\* A token by what it decodes to: the key it is signed with and the claims of
\* its payload (user_id and exp, each possibly missing; exp in whole seconds).
Token(has_user, user_id, has_exp, exp, key) ==
    [has_user |-> has_user, user_id |-> user_id, has_exp |-> has_exp,
     exp |-> exp, key |-> key]

\* Tokens not made by create_access_token that a caller may present.
ForeignTokens ==
    {Token(TRUE, u, TRUE, e, k) : u \in Subjects, e \in 0..MaxExp, k \in Keys}
    \cup {Token(FALSE, "", TRUE, e, k) : e \in 0..MaxExp, k \in Keys}
    \cup {Token(TRUE, u, FALSE, 0, k) : u \in Subjects, k \in Keys}

NoToken == Token(FALSE, "", FALSE, 0, "")

\* The outcome of a call: a value, or a raised exception of class `error`.
Returned(value) == [ok |-> TRUE, value |-> value, error |-> "", message |-> ""]

Raises(error, message) == [ok |-> FALSE, value |-> "", error |-> error, message |-> message]

NoVerification ==
    [called |-> FALSE, op |-> "", token |-> NoToken, at |-> 0, result |-> Returned("")]

\* The outcome of create_access_token: a token, or a raised exception.
Issued(tok) == [ok |-> TRUE, token |-> tok, error |-> "", message |-> ""]

IssueFails(error, message) ==
    [ok |-> FALSE, token |-> NoToken, error |-> error, message |-> message]

NoBackendOp ==
    [op |-> "", manager |-> "", username |-> "", identity |-> "", status |-> 0,
     result |-> IssueFails("", "")]

\* ---------------------------------------------------- auth: JWTTokenManager
\* timegm(dt.utctimetuple()): a datetime as whole seconds since the epoch.
WholeSeconds(ticks) == ticks \div Resolution

\* create_access_token, lines 76-89: expire = now + expires_delta (the
\* configured default when None, here ttl = 0), encoded with exp in whole
\* seconds and signed with SECRET_KEY.
CreateAccessTokenJWT(user_id, use_default, ttl, t) ==
    LET expires_delta == IF use_default
                         THEN ACCESS_TOKEN_EXPIRE_MINUTES * 60 * Resolution
                         ELSE ttl
        expire == t + expires_delta
    IN  Token(TRUE, user_id, TRUE, WholeSeconds(expire), SECRET_KEY)

\* jwt.decode(token, settings.SECRET_KEY, algorithms=["HS256"]), line 108: a
\* JWTError when the signature does not validate under SECRET_KEY or when the
\* exp claim lies before the current whole second; the payload otherwise.
JoseDecode(tok, t) ==
    IF tok.key # SECRET_KEY THEN Raises("JWTError", "Signature verification failed")
    ELSE IF tok.has_exp /\ tok.exp < WholeSeconds(t)
    THEN Raises("JWTError", "Signature has expired")
    ELSE Returned(tok.user_id)

\* datetime.now(timezone.utc): an offset-aware datetime.
NowUtc(t) == [aware |-> TRUE, ticks |-> t]

\* datetime.fromtimestamp(exp): an offset-naive datetime.
FromTimestamp(exp) == [aware |-> FALSE, ticks |-> exp * Resolution]

\* Faulty variant of the comparison: both datetimes compared as instants.
DatetimeGtAsInstants(a, b) == IF a.ticks > b.ticks THEN "True" ELSE "False"

\* a > b on datetimes: Python raises TypeError when one is offset-aware and the
\* other offset-naive.
DatetimeGt(a, b) ==
    IF a.aware # b.aware THEN "TypeError"
    ELSE IF a.ticks > b.ticks THEN "True" ELSE "False"

\* The try block of verify_token, lines 108-120.
VerifyTryBlock(tok, t) ==
    LET payload == JoseDecode(tok, t)
    IN  IF ~payload.ok THEN payload
        ELSE IF ~tok.has_user
        THEN Raises("AuthenticationError", "Invalid token payload")
        ELSE IF ~tok.has_exp
        THEN Raises("AuthenticationError", "Token has expired")
        ELSE LET gt == DatetimeGt(NowUtc(t), FromTimestamp(tok.exp))
             IN  CASE gt = "TypeError" ->
                        Raises("TypeError", "can't compare offset-naive and offset-aware datetimes")
                   [] gt = "True" -> Raises("AuthenticationError", "Token has expired")
                   [] OTHER -> Returned(tok.user_id)

\* Faulty variant of the except clauses: only JWTError is translated.
VerifyExceptOnlyJWTError(r) ==
    IF r.ok THEN r
    ELSE IF r.error = "JWTError" THEN Raises("AuthenticationError", "Invalid token")
    ELSE r

\* The except clauses of verify_token, lines 122-127: JWTError first, then
\* every other Exception, the AuthenticationErrors raised in the try block
\* included.
VerifyExcept(r) ==
    IF r.ok THEN r
    ELSE IF r.error = "JWTError" THEN Raises("AuthenticationError", "Invalid token")
    ELSE Raises("AuthenticationError", "Token verification failed")

\* JWTTokenManager.verify_token followed by get_user_id_from_token's
\* payload["user_id"], lines 94-143.
VerifyTokenJWT(tok, t) == VerifyExcept(VerifyTryBlock(tok, t))

\* The dotted names importlib can load in this repository, with the class
\* each one gives.
LoadableManagers ==
    [n \in {"app.custom_auth_example.CustomAuthManager"} |-> "CustomAuthManager"]

\* Faulty variant of the resolver: a name that cannot be loaded gives the
\* token-issuing manager.
GetAuthManagerFailOpen(name) ==
    CASE name = "JWTTokenManager" -> "JWTTokenManager"
      [] name = "DefaultAuthManager" -> "DefaultAuthManager"
      [] name \in DOMAIN LoadableManagers -> LoadableManagers[name]
      [] OTHER -> "JWTTokenManager"

\* get_auth_manager, lines 147-166: the class the configuration names, a
\* custom class loaded by its dotted name, and DefaultAuthManager when the
\* name cannot be split, imported or found.
GetAuthManager(name) ==
    CASE name = "JWTTokenManager" -> "JWTTokenManager"
      [] name = "DefaultAuthManager" -> "DefaultAuthManager"
      [] name \in DOMAIN LoadableManagers -> LoadableManagers[name]
      [] OTHER -> "DefaultAuthManager"

\* get_current_user, lines 169-193, on the credentials text: empty or a
\* token, with or without the "Bearer " prefix.
GetCurrentUserResult(prefix, empty, tok, t, name) ==
    IF empty /\ ~prefix
    THEN Raises("AuthenticationError", "No authentication token provided")
    ELSE IF GetAuthManager(name) # "JWTTokenManager"
    THEN Raises("AuthenticationError",
                "Current authentication manager doesn't support token validation")
    ELSE IF empty
    THEN VerifyExcept(Raises("JWTError", "Not enough segments"))
    ELSE VerifyTokenJWT(tok, t)

\* ---------------------------------------------------------- auth: actions
\* Time passes.
Tick ==
    /\ now < MaxTime
    /\ now' = now + 1
    /\ UNCHANGED <<auth_manager_class, issued, verification, execVars, backendOp, registryVars, limiterVars, pipelineVars>>

\* create_access_token(user_id, expires_delta) on the configured manager; the
\* managers other than JWTTokenManager raise and issue nothing.
CreateAccessToken ==
    /\ GetAuthManager(auth_manager_class) = "JWTTokenManager"
    /\ Cardinality(issued) < MaxIssued
    /\ \E u \in Subjects, use_default \in BOOLEAN, ttl \in 0..MaxTtl :
         /\ use_default => ttl = 0
         /\ issued' = issued \cup {CreateAccessTokenJWT(u, use_default, ttl, now)}
    /\ UNCHANGED <<auth_manager_class, now, verification, execVars, backendOp, registryVars, limiterVars, pipelineVars>>

\* JWTTokenManager().get_user_id_from_token(token) on an issued or a foreign
\* token.
VerifyToken ==
    /\ \E tok \in issued \cup ForeignTokens :
         verification' = [called |-> TRUE, op |-> "verify_token", token |-> tok, at |-> now,
                  result |-> VerifyTokenJWT(tok, now)]
    /\ UNCHANGED <<auth_manager_class, now, issued, execVars, backendOp, registryVars, limiterVars, pipelineVars>>

\* get_current_user(credentials) under the configured manager.
GetCurrentUser ==
    /\ \E prefix \in BOOLEAN, empty \in BOOLEAN, tok \in issued \cup ForeignTokens \cup {NoToken} :
         /\ empty <=> tok = NoToken
         /\ verification' = [called |-> TRUE, op |-> "get_current_user", token |-> tok, at |-> now,
                     result |-> GetCurrentUserResult(prefix, empty, tok, now,
                                                     auth_manager_class)]
    /\ UNCHANGED <<auth_manager_class, now, issued, execVars, backendOp, registryVars, limiterVars, pipelineVars>>

AuthIdle ==
    /\ auth_manager_class = "DefaultAuthManager"
    /\ now = 0
    /\ issued = {}
    /\ verification = NoVerification
    /\ backendOp = NoBackendOp

ExecutorIdle ==
    /\ max_retries = 3
    /\ retry_delay_base = Resolution
    /\ calls = {}
    /\ pc = [c \in Calls |-> "idle"]
    /\ attempt = [c \in Calls |-> 0]
    /\ last_exception = [c \in Calls |-> NoException]
    /\ retval = [c \in Calls |-> NoResponse]
    /\ raised = [c \in Calls |-> NoException]
    /\ hist = [c \in Calls |-> <<>>]
    /\ delays = [c \in Calls |-> <<>>]
    /\ surfaced = [c \in Calls |-> NoException]

\* The request slots of the pipeline, and a slot without a request.
Slots == {"r1", "r2"}

NoRequest ==
    [stage |-> "idle", address |-> "", token |-> NoToken,
     prompt |-> [prompt_name |-> "", prompt_text |-> <<>>, data |-> [k \in {} |-> "v"]],
     verified |-> FALSE, limiter_checked |-> FALSE, resolved |-> FALSE,
     messages |-> <<>>, ordinal |-> 0, outbound |-> 0, status |-> 0, error |-> ""]

PipelineIdle ==
    /\ req = [r \in Slots |-> NoRequest]
    /\ handled = [a \in Addresses |-> 0]

InitAuth ==
    /\ auth_manager_class \in ManagerNames
    /\ now = 0
    /\ issued = {}
    /\ verification = NoVerification
    /\ backendOp = NoBackendOp
    /\ ExecutorIdle
    /\ RegistryIdle
    /\ LimiterIdle
    /\ PipelineIdle

NextAuth == Tick \/ CreateAccessToken \/ VerifyToken \/ GetCurrentUser

SpecAuth == InitAuth /\ [][NextAuth]_vars

\* ------------------------------------------------- auth: backend variants
\* Values of AUTH_MANAGER_CLASS that name no known variant and cannot be
\* loaded: no such module, and no dot to split at.
UnloadableNames == {"no.such.Manager", "Bogus"}

BackendNames == ManagerNames \cup UnloadableNames \cup DOMAIN LoadableManagers

Usernames == {"admin", "alice"}

Passwords == {"admin123", "wrong"}

\* CustomAuthManager.users, custom_auth_example.py lines 31-44, and
\* authenticate_user, lines 47-81: the id of the user whose password matches,
\* "" for None.
CustomAuthenticate(username, password) ==
    IF username = "admin" /\ password = "admin123" THEN "admin_001"
    ELSE IF username = "user" /\ password = "user123" THEN "user_001"
    ELSE ""

\* manager.authenticate_user(username, password): BaseAuthManager (inherited by
\* JWTTokenManager) and DefaultAuthManager return None, auth.py lines 20-57.
AuthenticateUserOn(manager, username, password) ==
    IF manager = "CustomAuthManager" THEN CustomAuthenticate(username, password) ELSE ""

\* Faulty variant of the base method: it issues a signed token.
CreateAccessTokenBaseIssues(user_id, t) ==
    Issued(CreateAccessTokenJWT(user_id, TRUE, 0, t))

\* BaseAuthManager.create_access_token, auth.py lines 34-45, inherited by
\* DefaultAuthManager.
CreateAccessTokenBase(user_id, t) ==
    IssueFails("AuthenticationError",
               "Token creation not supported by this authentication manager")

\* manager.create_access_token(user_id, expires_delta): JWTTokenManager signs,
\* CustomAuthManager delegates to JWTTokenManager (custom_auth_example.py lines
\* 83-94), the other managers inherit the base method.
CreateAccessTokenOn(manager, user_id, use_default, ttl, t) ==
    IF manager \in {"JWTTokenManager", "CustomAuthManager"}
    THEN Issued(CreateAccessTokenJWT(user_id, use_default, ttl, t))
    ELSE CreateAccessTokenBase(user_id, t)

\* authenticate_user_oauth2, auth.py lines 208-261: 401 without an identity; a
\* token for the identity otherwise, and 500 when its creation raises.
AuthenticateUserOAuth2 ==
    /\ \E username \in Usernames, password \in Passwords :
         LET manager == GetAuthManager(auth_manager_class)
             identity == AuthenticateUserOn(manager, username, password)
             res == CreateAccessTokenOn(manager, identity, TRUE, 0, now)
         IN  IF identity = ""
             THEN /\ backendOp' = [op |-> "authenticate", manager |-> manager,
                                   username |-> username, identity |-> "",
                                   status |-> 401, result |-> IssueFails("", "")]
                  /\ issued' = issued
             ELSE /\ res.ok => Cardinality(issued \cup {res.token}) <= MaxIssued
                  /\ backendOp' = [op |-> "authenticate", manager |-> manager,
                                   username |-> username, identity |-> identity,
                                   status |-> IF res.ok THEN 200 ELSE 500,
                                   result |-> res]
                  /\ issued' = IF res.ok THEN issued \cup {res.token} ELSE issued
    /\ UNCHANGED <<auth_manager_class, now, verification, execVars, registryVars, limiterVars, pipelineVars>>

\* generate_token(user_id, expiration_days, expiration_hours),
\* scripts/generate_token.py lines 17-60: create_access_token on the configured
\* manager, with the default expiry when neither days nor hours is given; a
\* raised exception ends the script with status 1.
GenerateToken ==
    /\ \E user_id \in Subjects, days \in 0..1, hours \in 0..1 :
         LET manager == GetAuthManager(auth_manager_class)
             use_default == days = 0 /\ hours = 0
             ttl == (days * 24 + hours) * 3600 * Resolution
             res == CreateAccessTokenOn(manager, user_id, use_default, ttl, now)
         IN  /\ res.ok => Cardinality(issued \cup {res.token}) <= MaxIssued
             /\ backendOp' = [op |-> "issue", manager |-> manager, username |-> user_id,
                              identity |-> "", status |-> IF res.ok THEN 0 ELSE 1,
                              result |-> res]
             /\ issued' = IF res.ok THEN issued \cup {res.token} ELSE issued
    /\ UNCHANGED <<auth_manager_class, now, verification, execVars, registryVars, limiterVars, pipelineVars>>

InitBackend ==
    /\ auth_manager_class \in BackendNames
    /\ now = 0
    /\ issued = {}
    /\ verification = NoVerification
    /\ backendOp = NoBackendOp
    /\ ExecutorIdle
    /\ RegistryIdle
    /\ LimiterIdle
    /\ PipelineIdle

NextBackend == AuthenticateUserOAuth2 \/ GenerateToken \/ GetCurrentUser

SpecBackend == InitBackend /\ [][NextBackend]_vars

\* ------------------------------------------------ executor: the loop body
\* int(x) of a float number of seconds truncates toward zero (line 84, when the
\* header is absent and the default retry_delay_base is converted).
IntOfSeconds(ticks) == ticks \div Resolution

\* int(response.headers.get("Retry-After", self.retry_delay_base)), line 84:
\* whole seconds, or a ValueError for text that is no integer.
RetryAfterSeconds(ra, base) ==
    CASE ra.form = "absent" -> [ok |-> TRUE, seconds |-> IntOfSeconds(base)]
      [] ra.form = "int" -> [ok |-> TRUE, seconds |-> ra.n]
      [] OTHER -> [ok |-> FALSE, seconds |-> 0]

\* Faulty variants of the 429 retry test: one retry too few, one retry too many.
RateLimitRetryOneShort(i, R) == i + 1 < R

RateLimitRetryOneMore(i, R) == i <= R

\* `if attempt < self.max_retries` of the 429 branch, line 83.
RateLimitRetryAllowed(i, R) == i < R

\* `if attempt < self.max_retries` after the except clauses, line 131.
FaultRetryAllowed(i, R) == i < R

\* Faulty variant of the error-status test: only 5xx counts as an error.
IsHttpErrorOnly5xx(status) == status >= 500

\* `if response.status_code >= 400`, line 103.
IsHttpError(status) == status >= 400

\* The try block, lines 73-115, for attempt index i and what the request
\* produced.  ctl is "continue" (sleep, then the next iteration), "return",
\* "raise" (an OpenRouterError or RetryExhaustedError raised in the block) or
\* "except" (an exception of class cls reaches the except clauses).
TryBlock(i, out, R, B) ==
    LET none == [ctl |-> "return", delay |-> 0, response |-> NoResponse,
                 exc |-> NoException, cls |-> "None"]
    IN  IF out.kind # "response"
        THEN [none EXCEPT !.ctl = "except", !.cls = out.kind]
        ELSE IF out.status = 429
        THEN IF RateLimitRetryAllowed(i, R)
             THEN LET ra == RetryAfterSeconds(out.retry_after, B)
                  IN  IF ra.ok
                      THEN [none EXCEPT !.ctl = "continue",
                                        !.delay = ra.seconds * Resolution * Pow2(i)]
                      ELSE [none EXCEPT !.ctl = "except", !.cls = "Exception"]
             ELSE [none EXCEPT !.ctl = "raise",
                               !.exc = RetryExhaustedError("Rate limit retries exhausted")]
        ELSE IF IsHttpError(out.status)
        THEN [none EXCEPT !.ctl = "raise",
                          !.exc = OpenRouterError("OpenRouter API error", out.status)]
        ELSE [none EXCEPT !.response = out]

\* The except clauses that record a fault and fall through, lines 117-128.
WrapFault(cls) ==
    CASE cls = "TimeoutException" -> OpenRouterError("Request timeout", 408)
      [] cls = "RequestError" -> OpenRouterError("Request error", 500)
      [] OTHER -> OpenRouterError("Unexpected error", 500)

\* Faulty variant of the fault record: the first fault is kept, later ones dropped.
RecordFaultKeepFirst(old, cls) == IF old = NoException THEN WrapFault(cls) ELSE old

\* `last_exception = OpenRouterError(...)` in each except clause.
RecordFault(old, cls) == WrapFault(cls)

\* `raise last_exception or OpenRouterError("All retry attempts failed")`, line 137.
LoopExit(last) ==
    IF last = NoException THEN OpenRouterError("All retry attempts failed", 500) ELSE last

\* One iteration of the loop, lines 72-134, up to its return, raise or sleep.
\* ctl is "return", "raise", "sleep" (a delay is awaited) or "next" (the
\* iteration ends without a delay).
LoopBody(i, out, R, B, last) ==
    LET t == TryBlock(i, out, R, B)
        base == [ctl |-> t.ctl, delay |-> t.delay, response |-> t.response,
                 exc |-> t.exc, last_exception |-> last]
    IN  CASE t.ctl = "continue" -> [base EXCEPT !.ctl = "sleep"]
          [] t.ctl = "except" ->
                LET le == RecordFault(last, t.cls)
                IN  IF FaultRetryAllowed(i, R)
                    THEN [base EXCEPT !.ctl = "sleep", !.delay = B * Pow2(i),
                                      !.last_exception = le]
                    ELSE [base EXCEPT !.ctl = "next", !.last_exception = le]
          [] OTHER -> base

\* ---------------------------------------------------- executor: actions
\* `for attempt in range(self.max_retries + 1)` moves to the next index, or the
\* loop ends and line 137 raises.
AdvanceLoop(c, last) ==
    IF attempt[c] + 1 <= max_retries
    THEN /\ attempt' = [attempt EXCEPT ![c] = @ + 1]
         /\ pc' = [pc EXCEPT ![c] = "request"]
         /\ raised' = raised
    ELSE /\ attempt' = attempt
         /\ pc' = [pc EXCEPT ![c] = "raised"]
         /\ raised' = [raised EXCEPT ![c] = LoopExit(last)]

\* Faulty variant of the suspension: a blocking sleep holds the event loop, so no
\* other call runs while one call is in its delay.
BlockedWhileAnotherSleeps(c) == \E d \in calls \ {c} : pc[d] = "sleeping"

\* `await asyncio.sleep(delay)`, lines 95 and 134, suspends the awaiting
\* coroutine only: a call in its delay keeps no other call from running.
BlockedBySleeper(c) == FALSE

\* _make_request_with_retry is entered: line 70.
Call(c) ==
    /\ c \in calls
    /\ pc[c] = "idle"
    /\ ~BlockedBySleeper(c)
    /\ pc' = [pc EXCEPT ![c] = "request"]
    /\ attempt' = [attempt EXCEPT ![c] = 0]
    /\ last_exception' = [last_exception EXCEPT ![c] = NoException]
    /\ UNCHANGED <<max_retries, retry_delay_base, calls, retval, raised, hist, delays,
                   surfaced>>
    /\ UNCHANGED <<authVars, backendOp, registryVars, limiterVars, pipelineVars>>

\* One attempt: the request is awaited and the loop body runs up to its
\* return, raise or asyncio.sleep.
Attempt(c) ==
    /\ c \in calls
    /\ pc[c] = "request"
    /\ ~BlockedBySleeper(c)
    /\ \E out \in Outcomes :
         LET r == LoopBody(attempt[c], out, max_retries, retry_delay_base,
                           last_exception[c])
         IN  /\ hist' = [hist EXCEPT ![c] = Append(@, out)]
             /\ last_exception' = [last_exception EXCEPT ![c] = r.last_exception]
             /\ CASE r.ctl = "sleep" ->
                       /\ pc' = [pc EXCEPT ![c] = "sleeping"]
                       /\ delays' = [delays EXCEPT ![c] = Append(@, r.delay)]
                       /\ UNCHANGED <<attempt, retval, raised>>
                  [] r.ctl = "return" ->
                       /\ pc' = [pc EXCEPT ![c] = "returned"]
                       /\ retval' = [retval EXCEPT ![c] = r.response]
                       /\ UNCHANGED <<attempt, raised, delays>>
                  [] r.ctl = "raise" ->
                       /\ pc' = [pc EXCEPT ![c] = "raised"]
                       /\ raised' = [raised EXCEPT ![c] = r.exc]
                       /\ UNCHANGED <<attempt, retval, delays>>
                  [] OTHER ->
                       /\ AdvanceLoop(c, r.last_exception)
                       /\ UNCHANGED <<retval, delays>>
    /\ UNCHANGED <<max_retries, retry_delay_base, calls, surfaced>>
    /\ UNCHANGED <<authVars, backendOp, registryVars, limiterVars, pipelineVars>>

\* asyncio.sleep(delay) completes (lines 95-96 and 134): the loop goes on.
Wake(c) ==
    /\ c \in calls
    /\ pc[c] = "sleeping"
    /\ ~BlockedBySleeper(c)
    /\ AdvanceLoop(c, last_exception[c])
    /\ UNCHANGED <<max_retries, retry_delay_base, calls, last_exception, retval,
                   hist, delays, surfaced>>
    /\ UNCHANGED <<authVars, backendOp, registryVars, limiterVars, pipelineVars>>

ExecInitCommon ==
    /\ pc = [c \in Calls |-> "idle"]
    /\ attempt = [c \in Calls |-> 0]
    /\ last_exception = [c \in Calls |-> NoException]
    /\ retval = [c \in Calls |-> NoResponse]
    /\ raised = [c \in Calls |-> NoException]
    /\ hist = [c \in Calls |-> <<>>]
    /\ delays = [c \in Calls |-> <<>>]
    /\ surfaced = [c \in Calls |-> NoException]

\* One executor call, under every configuration within the bounds.
InitExecutor ==
    /\ max_retries \in 0..MaxR
    /\ retry_delay_base \in 1..MaxBase
    /\ calls = {"c1"}
    /\ ExecInitCommon
    /\ AuthIdle
    /\ RegistryIdle
    /\ LimiterIdle
    /\ PipelineIdle

NextExecutor == \E c \in Calls : Call(c) \/ Attempt(c) \/ Wake(c)

SpecExecutor == InitExecutor /\ [][NextExecutor]_vars

\* The awaited request completes (a response, or the client's timeout raises)
\* and asyncio.sleep returns: a call that can take its next step takes it.
SpecExecutorFair ==
    SpecExecutor /\ \A c \in Calls : WF_vars(Attempt(c)) /\ WF_vars(Wake(c))

\* ---------------------------------------------------- orchestrator: errors
\* except Exception of chat_completion, openrouter_client.py lines 181-185: an
\* OpenRouterError or RetryExhaustedError is raised again as it is.
ChatCompletionRaises(e) ==
    IF e.type \in {"OpenRouterError", "RetryExhaustedError"} THEN e
    ELSE OpenRouterError("Chat completion failed: " \o e.message, 500)

\* except Exception of _call_openrouter, services.py lines 170-174: an
\* OpenRouterError is raised again, anything else as a new OpenRouterError
\* (status 500) around its text.
CallOpenrouterRaises(e) ==
    IF e.type = "OpenRouterError" THEN e
    ELSE OpenRouterError("OpenRouter API call failed: " \o e.message, 500)

\* except Exception of process_request, services.py lines 81-88.
ProcessRequestRaises(e) ==
    IF e.type \in {"PromptError", "OpenRouterError"} THEN e
    ELSE OpenRouterError("Request processing failed: " \o e.message, 500)

\* The exception of the executor travels through chat_completion,
\* _call_openrouter and process_request to ask_llm.
Surface(c) ==
    /\ c \in calls
    /\ pc[c] = "raised"
    /\ surfaced[c] = NoException
    /\ surfaced' = [surfaced EXCEPT ![c] =
            ProcessRequestRaises(CallOpenrouterRaises(ChatCompletionRaises(raised[c])))]
    /\ UNCHANGED <<max_retries, retry_delay_base, calls, pc, attempt, last_exception,
                   retval, raised, hist, delays>>
    /\ UNCHANGED <<authVars, backendOp, registryVars, limiterVars, pipelineVars>>

NextOrchestrator == \E c \in Calls : Call(c) \/ Attempt(c) \/ Wake(c) \/ Surface(c)

SpecOrchestrator == InitExecutor /\ [][NextOrchestrator]_vars

\* Several executor calls in flight at once (LLMService._call_openrouter opens
\* one client per request), with the default RETRY_DELAY_BASE of one second.
InitConcurrent ==
    /\ max_retries \in 1..MaxRConcurrent
    /\ retry_delay_base = Resolution
    /\ calls = Calls
    /\ ExecInitCommon
    /\ AuthIdle
    /\ RegistryIdle
    /\ LimiterIdle
    /\ PipelineIdle

SpecConcurrent == InitConcurrent /\ [][NextExecutor]_vars

\* ------------------------------------------------- request pipeline
\* A manager class the deployment names in AUTH_MANAGER_CLASS and that has
\* get_user_id_from_token (auth.py lines 154-160 load it, line 193 calls it).
ExternalManagers == {"deploy.auth.TokenAuthManager"}

PipelineManagers == {"JWTTokenManager"} \cup ExternalManagers

\* The bearer tokens requests are sent with.
PipelineTokens ==
    {Token(TRUE, "alice", TRUE, MaxExp, SECRET_KEY), Token(TRUE, "alice", TRUE, MaxExp, "other")}

\* class PromptName(str, Enum): the values LLMRequest.prompt_name accepts.
PromptName == {"company_analysis", "text_summary", "code_review", "general_question"}

\* The prompt fields of the request bodies sent: a stored template with and
\* without its data, a direct text, neither ("" and <<>> are None), both, and
\* the name of a template registered at run time.
PromptChoices ==
    {[prompt_name |-> "text_summary", prompt_text |-> <<>>, data |-> d] :
        d \in {[k \in {} |-> "v"], [k \in {"text"} |-> "v"]}}
    \cup {[prompt_name |-> "", prompt_text |-> t, data |-> [k \in {} |-> "v"]] :
            t \in {<<>>, <<Text("Hello "), Field("name")>>}}
    \cup {[prompt_name |-> "text_summary", prompt_text |-> <<Text("No placeholders")>>,
           data |-> [k \in {"text"} |-> "v"]],
          [prompt_name |-> "greeting", prompt_text |-> <<>>,
           data |-> [k \in {"name"} |-> "v"]]}

\* get_current_user on the configured manager: the deployment's manager
\* accepts or refuses the token, the repository's managers as above.
CurrentUser(tok, t, name, accepts) ==
    IF name \in ExternalManagers
    THEN IF accepts THEN Returned(tok.user_id)
         ELSE Raises("AuthenticationError", "Invalid token")
    ELSE GetCurrentUserResult(FALSE, FALSE, tok, t, name)

\* not prompt: the empty text.
IsEmptyText(value) == \A i \in DOMAIN value : value[i] = ""

\* Faulty variant of the prompt choice: the direct text wins over the name.
ResolveRequestPromptTextFirst(prompts, p) ==
    LET r == IF p.prompt_text # <<>>
             THEN FormatDirectPrompt(p.prompt_text, p.data)
             ELSE GetStoredPrompt(prompts, p.prompt_name, p.data)
    IN  IF r.ok /\ IsEmptyText(r.value)
        THEN Fails("PromptError", <<"No prompt available for processing">>, {})
        ELSE r

\* The prompt of process_request, services.py lines 37-47.
ResolveRequestPrompt(prompts, p) ==
    LET r == IF p.prompt_name # ""
             THEN GetStoredPrompt(prompts, p.prompt_name, p.data)
             ELSE FormatDirectPrompt(p.prompt_text, p.data)
    IN  IF r.ok /\ IsEmptyText(r.value)
        THEN Fails("PromptError", <<"No prompt available for processing">>, {})
        ELSE r

\* A request reaches the application.
Arrive(r) ==
    /\ req[r].stage \in {"idle", "done"}
    /\ \E a \in Addresses, tok \in PipelineTokens, p \in PromptChoices :
         req' = [req EXCEPT ![r] = [NoRequest EXCEPT !.stage = "arrived", !.address = a,
                                                      !.token = tok, !.prompt = p]]
    /\ UNCHANGED <<handled, limiterVars, execVars, authVars, backendOp, registryVars>>

\* get_current_user_dependency, api.py lines 297-306: the user of the token,
\* or 401 for an AuthenticationError; any other exception is a 500.
Authenticate(r) ==
    /\ req[r].stage = "arrived"
    /\ \E accepts \in BOOLEAN :
         LET u == CurrentUser(req[r].token, now, auth_manager_class, accepts)
         IN  req' = [req EXCEPT ![r] =
                        IF u.ok
                        THEN [@ EXCEPT !.stage = "authenticated", !.verified = TRUE]
                        ELSE [@ EXCEPT !.stage = "done", !.error = u.error,
                                       !.status = IF u.error = "AuthenticationError"
                                                  THEN 401 ELSE 500]]
    /\ UNCHANGED <<handled, limiterVars, execVars, authVars, backendOp, registryVars>>

\* The body of the request is parsed into an LLMRequest (models.py lines
\* 14-19): a prompt_name outside the PromptName enum is refused with 422 before
\* ask_llm runs.  Then ask_llm, api.py lines 309-354, with process_request,
\* services.py lines 19-88, up to the call of the provider: the request is
\* validated, its prompt resolved, and _call_openrouter entered;
\* ValidationError and PromptError are answered with 400.
Handle(r) ==
    /\ req[r].stage = "authenticated"
    /\ handled[req[r].address] <= rate_limit_requests
    /\ LET p == req[r].prompt
           n == handled[req[r].address] + 1
           res == ResolveRequestPrompt(PROMPTS, p)
       IN  IF p.prompt_name \notin PromptName \cup {""}
           THEN /\ handled' = handled
                /\ req' = [req EXCEPT ![r] =
                     [@ EXCEPT !.stage = "done", !.status = 422,
                               !.error = "RequestValidationError"]]
           ELSE /\ handled' = [handled EXCEPT ![req[r].address] = n]
                /\ req' = [req EXCEPT ![r] =
                     IF p.prompt_name = "" /\ p.prompt_text = <<>>
                     THEN [@ EXCEPT !.stage = "done", !.ordinal = n, !.status = 400,
                                    !.error = "ValidationError"]
                     ELSE IF ~res.ok
                     THEN [@ EXCEPT !.stage = "done", !.ordinal = n, !.status = 400,
                                    !.error = res.error]
                     ELSE [@ EXCEPT !.stage = "calling", !.ordinal = n,
                                    !.resolved = TRUE, !.messages = res.value,
                                    !.outbound = 1]]
    /\ UNCHANGED <<limiterVars, execVars, authVars, backendOp, registryVars>>

\* The provider call of _call_openrouter, services.py lines 149-174, ends: the
\* response is returned, or an OpenRouterError answered with its status code.
Complete(r) ==
    /\ req[r].stage = "calling"
    /\ \E status \in {200, 429, 500} :
         req' = [req EXCEPT ![r] = [@ EXCEPT !.stage = "done", !.status = status,
                                              !.error = IF status = 200 THEN ""
                                                        ELSE "OpenRouterError"]]
    /\ UNCHANGED <<handled, limiterVars, execVars, authVars, backendOp, registryVars>>

\* ------------------------------------------------- rate limiter and pipeline: specifications
InitLimiter ==
    /\ trusted_ips \in SUBSET Addresses
    /\ rate_limit_requests \in 1..MaxCeiling
    /\ window_table \in [Addresses -> 0..MaxHits]
    /\ \A a \in trusted_ips : window_table[a] = 0
    /\ admission = NoAdmission
    /\ PipelineIdle
    /\ ExecutorIdle
    /\ AuthIdle
    /\ RegistryIdle

NextLimiter == IsRateLimitExceeded

SpecLimiter == InitLimiter /\ [][NextLimiter]_vars

\* Requests from a trusted and an untrusted address, all at one instant and
\* so inside one window.
InitPipeline ==
    /\ trusted_ips = {"10.0.0.2"}
    /\ rate_limit_requests \in 1..MaxCeiling
    /\ window_table = [a \in Addresses |-> 0]
    /\ admission = NoAdmission
    /\ PipelineIdle
    /\ auth_manager_class \in PipelineManagers
    /\ now = 0
    /\ issued = {}
    /\ verification = NoVerification
    /\ backendOp = NoBackendOp
    /\ ExecutorIdle
    /\ RegistryIdle

NextPipeline == \E r \in Slots : Arrive(r) \/ Authenticate(r) \/ Handle(r) \/ Complete(r)

SpecPipeline == InitPipeline /\ [][NextPipeline]_vars

\* One client that registers and removes templates (scripts/manage_prompts.py)
\* and sends requests, against a deployment whose manager loads.
InitService ==
    /\ trusted_ips = {"10.0.0.2"}
    /\ rate_limit_requests = 1
    /\ window_table = [a \in Addresses |-> 0]
    /\ admission = NoAdmission
    /\ PipelineIdle
    /\ auth_manager_class \in ExternalManagers
    /\ now = 0
    /\ issued = {}
    /\ verification = NoVerification
    /\ backendOp = NoBackendOp
    /\ ExecutorIdle
    /\ RegistryIdle

NextService ==
    \/ Arrive("r1") \/ Authenticate("r1") \/ Handle("r1") \/ Complete("r1")
    \/ AddPrompt \/ RemovePrompt

SpecService == InitService /\ [][NextService]_vars

\* ------------------------------------------------- prompt registry: specification
InitRegistry ==
    /\ RegistryIdle
    /\ ExecutorIdle
    /\ AuthIdle
    /\ LimiterIdle
    /\ PipelineIdle

NextRegistry ==
    AddPrompt \/ UpdatePrompt \/ RemovePrompt \/ ResolvePrompt \/ ResolveLiteral

SpecRegistry == InitRegistry /\ [][NextRegistry]_vars

\* Resolutions of a stored template, taken one call at a time, beside the
\* handlers that change the registry.
NextInterleaved ==
    \/ ValidateStep
    \/ FormatStep
    \/ (EventLoopFree /\ AddPrompt)
    \/ (EventLoopFree /\ UpdatePrompt)
    \/ (EventLoopFree /\ RemovePrompt)

SpecInterleaved == InitRegistry /\ [][NextInterleaved]_vars

\* ------------------------------------------------- executor: properties
IsRateLimit(o) == o.kind = "response" /\ o.status = 429

IsSuccess(o) == o.kind = "response" /\ o.status < 400

IsTransient(o) == o.kind \in {"TimeoutException", "RequestError"}

IsFatalStatus(o) == o.kind = "response" /\ o.status >= 400 /\ o.status # 429

AllRateLimited(h, n) == \A j \in 1..n : IsRateLimit(h[j])

\* The call has made Len(hist) attempts and is on its way to the next one.
GoesOn(c) ==
    LET n == Len(hist[c])
    IN  \/ pc[c] = "sleeping" /\ attempt[c] = n - 1 /\ Len(delays[c]) = n
        \/ pc[c] = "request" /\ attempt[c] = n /\ Len(delays[c]) = n
        \/ pc[c] = "idle" /\ n = 0

\* C1: k rate-limit signals (k <= R) followed by a success make the call return
\* that success after exactly k+1 attempts; while only rate-limit signals have
\* been received, at most R of them, the call goes on to its next attempt.
C1_RateLimitedThenSuccess ==
    \A c \in calls :
        LET h == hist[c]
            n == Len(h)
        IN  /\ (n >= 1 /\ n - 1 <= max_retries /\ AllRateLimited(h, n - 1) /\ IsSuccess(h[n]))
                => /\ pc[c] = "returned"
                   /\ retval[c] = h[n]
                   /\ attempt[c] = n - 1
                   /\ Len(delays[c]) = n - 1
            /\ (n <= max_retries /\ AllRateLimited(h, n)) => GoesOn(c)

\* C1 witness: [rate-limited, rate-limited, success] with R = 3 has returned.
C1_Witness ==
    \E c \in calls :
        /\ max_retries = 3
        /\ Len(hist[c]) = 3
        /\ IsRateLimit(hist[c][1]) /\ IsRateLimit(hist[c][2]) /\ IsSuccess(hist[c][3])
        /\ pc[c] = "returned"
        /\ retval[c] = hist[c][3]

\* C2: when every attempt is answered with the rate-limit signal the call
\* raises RetryExhaustedError at the attempt with index R, not earlier, and no
\* call ever makes more than R+1 attempts.
C2_AllRateLimitedExhausts ==
    \A c \in calls :
        LET h == hist[c]
            n == Len(h)
        IN  /\ n <= max_retries + 1
            /\ (n = max_retries + 1 /\ AllRateLimited(h, n))
                => /\ pc[c] = "raised"
                   /\ raised[c].type = "RetryExhaustedError"
                   /\ attempt[c] = max_retries
                   /\ Len(delays[c]) = max_retries
            /\ (n <= max_retries /\ AllRateLimited(h, n))
                => pc[c] \notin {"raised", "returned"}

\* C2 witness: four rate-limited responses with R = 3 raised RetryExhaustedError.
C2_Witness ==
    \E c \in calls :
        /\ max_retries = 3
        /\ Len(hist[c]) = 4
        /\ AllRateLimited(hist[c], 4)
        /\ pc[c] = "raised"
        /\ raised[c].type = "RetryExhaustedError"

\* C3: an error status other than 429, at any attempt index, ends the call at
\* once with an OpenRouterError carrying that status: it is the last attempt
\* and no delay follows it.
C3_FatalStatusEndsCall ==
    \A c \in calls :
        \A j \in 1..Len(hist[c]) :
            IsFatalStatus(hist[c][j])
                => /\ j = Len(hist[c])
                   /\ pc[c] = "raised"
                   /\ raised[c].type = "OpenRouterError"
                   /\ raised[c].status_code = hist[c][j].status
                   /\ attempt[c] = j - 1
                   /\ Len(delays[c]) = j - 1

\* C3 witness: a single 400 response, with retries still available, ended the call.
C3_Witness ==
    \E c \in calls :
        /\ max_retries >= 1
        /\ hist[c] = <<[kind |-> "response", status |-> 400, retry_after |-> NoHeader]>>
        /\ pc[c] = "raised"
        /\ raised[c].status_code = 400
        /\ delays[c] = <<>>

C5_OnlyRateLimitOrTransientRetried ==
    \A c \in calls :
        \A j \in 1..Len(hist[c]) :
            (j < Len(hist[c]) \/ pc[c] \in {"sleeping", "request"})
                => IsRateLimit(hist[c][j]) \/ IsTransient(hist[c][j])

\* C6 (as claimed): the delay after the attempt with index i is h * 2^i, h
\* being the integer Retry-After hint of a rate-limited attempt and B otherwise.
\* (A rate-limited attempt whose hint is no integer is left out.)
C6_DelayIsHintTimesPowerOfTwo ==
    \A c \in calls :
        \A j \in 1..Len(delays[c]) :
            LET o == hist[c][j]
                h == IF IsRateLimit(o) /\ o.retry_after.form = "int"
                     THEN o.retry_after.n * Resolution
                     ELSE retry_delay_base
            IN  ~(IsRateLimit(o) /\ o.retry_after.form = "text")
                    => delays[c][j] = h * Pow2(j - 1)

\* The delay the code takes after attempt index i produced o, from this
\* attempt alone.
OwnDelay(o, i) ==
    IF IsRateLimit(o) /\ RetryAfterSeconds(o.retry_after, retry_delay_base).ok
    THEN RetryAfterSeconds(o.retry_after, retry_delay_base).seconds * Resolution * Pow2(i)
    ELSE retry_delay_base * Pow2(i)

\* C7: with several calls in flight, a call in its backoff delay keeps no
\* other call from making its next attempt, from waking, or from starting;
\* and every call's attempt index and delays follow from its own attempts.
C7_BackoffIndependent ==
    \A c \in calls :
        /\ (\E d \in calls \ {c} : pc[d] = "sleeping")
            => /\ pc[c] = "request" => ENABLED Attempt(c)
               /\ pc[c] = "sleeping" => ENABLED Wake(c)
               /\ pc[c] = "idle" => ENABLED Call(c)
        /\ GoesOn(c) \/ (/\ pc[c] \in {"returned", "raised"}
                         /\ attempt[c] = Len(hist[c]) - 1
                         /\ Len(delays[c]) = Len(hist[c]) - 1)
        /\ \A j \in 1..Len(delays[c]) : delays[c][j] = OwnDelay(hist[c][j], j - 1)

\* C7 witness: one call is in its delay and another call, started with it,
\* has made an attempt and finished.
C7_Witness ==
    \E c, d \in calls :
        /\ c # d
        /\ pc[d] = "sleeping"
        /\ pc[c] = "returned"
        /\ Len(hist[c]) = 2

\* ----------------------------------------------------- auth: properties
ExpiryTick(tok) == tok.exp * Resolution

\* C8 (as claimed): a token create_access_token issued, verified at a time
\* strictly before its expiry, is accepted and gives back its subject.
C8_IssuedTokenAcceptedBeforeExpiry ==
    (/\ verification.called
     /\ verification.op = "verify_token"
     /\ verification.token \in issued
     /\ verification.at < ExpiryTick(verification.token))
        => /\ verification.result.ok
           /\ verification.result.value = verification.token.user_id

\* C9: a verification made at or after the expiry carried by the token, the
\* exact expiry instant included, fails with AuthenticationError.
C9_RejectedAtOrAfterExpiry ==
    (/\ verification.called
     /\ verification.token.has_exp
     /\ verification.at >= ExpiryTick(verification.token))
        => /\ ~verification.result.ok
           /\ verification.result.error = "AuthenticationError"

\* C9 witness: an issued token is verified at its exact expiry instant and
\* refused.
C9_Witness ==
    /\ verification.called
    /\ verification.op = "verify_token"
    /\ verification.token \in issued
    /\ verification.at = ExpiryTick(verification.token)
    /\ ~verification.result.ok
    /\ verification.result.error = "AuthenticationError"

\* C10: a token whose signature does not validate under SECRET_KEY, and a
\* validly signed token without user_id, are refused; every refusal is an
\* AuthenticationError and gives no subject.
C10_InvalidTokensRaiseAuthenticationError ==
    verification.called
        => /\ ~verification.result.ok
                => /\ verification.result.error = "AuthenticationError"
                   /\ verification.result.value = ""
           /\ verification.token.key # SECRET_KEY => ~verification.result.ok
           /\ ~verification.token.has_user => ~verification.result.ok

\* C10 witness: a validly signed, unexpired token without user_id is refused
\* with AuthenticationError.
C10_Witness ==
    /\ verification.called
    /\ verification.op = "verify_token"
    /\ verification.token.key = SECRET_KEY
    /\ ~verification.token.has_user
    /\ verification.at < ExpiryTick(verification.token)
    /\ ~verification.result.ok
    /\ verification.result.error = "AuthenticationError"

\* ------------------------------------------------- backend: properties
\* The failure of a manager that lacks the token capability.
IsUnsupportedOperation(r) ==
    /\ ~r.ok
    /\ r.error = "AuthenticationError"
    /\ r.message = "Token creation not supported by this authentication manager"

\* No identity, no token and no accepted bearer token so far.
NothingGranted ==
    /\ issued = {}
    /\ backendOp.op = "authenticate"
        => backendOp.identity = "" /\ backendOp.status = 401 /\ ~backendOp.result.ok
    /\ backendOp.op = "issue"
        => IsUnsupportedOperation(backendOp.result) /\ backendOp.status = 1

\* C11: with the default DefaultAuthManager every login gives no identity,
\* every token creation fails as unsupported, and no token is ever issued.
C11_NullBackendGrantsNothing ==
    auth_manager_class = "DefaultAuthManager" => NothingGranted

\* C11 witness: a token creation was tried on DefaultAuthManager and failed.
C11_Witness ==
    /\ auth_manager_class = "DefaultAuthManager"
    /\ backendOp.op = "issue"
    /\ IsUnsupportedOperation(backendOp.result)
    /\ issued = {}

\* C12: a configured name that is no known variant and cannot be loaded
\* resolves to DefaultAuthManager: no login succeeds, no token is issued and
\* no bearer token is accepted.
C12_UnloadableNameFailsClosed ==
    auth_manager_class \in UnloadableNames
        => /\ NothingGranted
           /\ backendOp.op # "" => backendOp.manager = "DefaultAuthManager"
           /\ verification.called => ~verification.result.ok

\* C12 witness: under an unloadable name a validly signed bearer token was
\* presented and refused.
C12_Witness ==
    /\ auth_manager_class = "no.such.Manager"
    /\ verification.called
    /\ verification.op = "get_current_user"
    /\ verification.token.key = SECRET_KEY
    /\ verification.token.has_user
    /\ ~verification.result.ok
    /\ backendOp.op = "authenticate"

\* ------------------------------------------------- prompt registry: properties
\* The failure kinds of the registry, told apart by the first message under
\* the operation's prefix.
IsDuplicateTemplate(r, n) ==
    /\ ~r.ok
    /\ r.message = <<"Error adding prompt '", n, "': ", "Prompt '", n, "' already exists">>

IsNotFound(r, prefix, n) ==
    /\ ~r.ok
    /\ r.message = <<prefix, n, "': ", "Prompt '", n, "' does not exist">>

IsProtectedTemplate(r, n) ==
    /\ ~r.ok
    /\ r.message = <<"Error removing prompt '", n, "': ",
                     "Cannot remove built-in prompt '", n, "'">>

\* The step is the operation op, on any name.
RegistryStep(op) == regOp'.op = op

\* C18: register of a name already registered fails as a duplicate, update
\* and remove of a name not registered fail as not found, and every failed
\* register, update or remove leaves the registry as it was.
C18_FailedOperationsLeaveRegistry ==
    [][ /\ RegistryStep("add") /\ regOp'.name \in DOMAIN PROMPTS
            => IsDuplicateTemplate(regOp'.result, regOp'.name)
        /\ RegistryStep("update") /\ regOp'.name \notin DOMAIN PROMPTS
            => IsNotFound(regOp'.result, "Error updating prompt '", regOp'.name)
        /\ RegistryStep("remove") /\ regOp'.name \notin DOMAIN PROMPTS
            => IsNotFound(regOp'.result, "Error removing prompt '", regOp'.name)
        /\ regOp'.op \in {"add", "update", "remove"} /\ ~regOp'.result.ok
            => PROMPTS' = PROMPTS ]_vars

\* C18 witness: a register of a name that a successful register had added
\* failed as a duplicate, and the first template is still in place.
C18_Witness ==
    /\ regOp.op = "add"
    /\ regOp.name \in CustomNames
    /\ IsDuplicateTemplate(regOp.result, regOp.name)
    /\ regOp.name \in DOMAIN PROMPTS
    /\ PROMPTS[regOp.name].template # regOp.template

\* C19: after any sequence of operations, remove of a built-in name fails as
\* protected and every built-in name is still registered.
C19_BuiltInNeverRemoved ==
    /\ BuiltInNames \subseteq DOMAIN PROMPTS
    /\ regOp.op = "remove" /\ regOp.name \in BuiltInNames
        => IsProtectedTemplate(regOp.result, regOp.name)

\* C19 witness: a remove of a built-in name failed as protected after the
\* registry had changed.
C19_Witness ==
    /\ regOp.op = "remove"
    /\ regOp.name = "text_summary"
    /\ IsProtectedTemplate(regOp.result, regOp.name)
    /\ "text_summary" \in DOMAIN PROMPTS
    /\ DOMAIN PROMPTS # BuiltInNames

\* C20: after any sequence of register, update and remove operations every
\* built-in name is registered with the template it was seeded with.
C20_BuiltInTemplatesImmutable ==
    \A n \in BuiltInNames :
        n \in DOMAIN PROMPTS /\ PROMPTS[n].template = SeededPrompts[n].template

\* ------------------------------------------------- rate limiter and pipeline: properties
\* The request of slot r is past the point of admission: in the handler or
\* answered by it.
Entered(r) == req[r].ordinal > 0

\* C13: of the requests of a non-trusted address inside one window, the first
\* RATE_LIMIT_REQUESTS are admitted and every further one is refused with
\* RateLimitError.
C13_OverCeilingThrottled ==
    \A r \in Slots :
        Entered(r) /\ req[r].address \notin trusted_ips
            => IF req[r].ordinal > rate_limit_requests
               THEN req[r].error = "RateLimitError" /\ req[r].outbound = 0
               ELSE req[r].error # "RateLimitError"

\* C14: a call for a trusted address is admitted, whatever was counted
\* before, and leaves every count of the window table as it was.
C14_TrustedAdmittedTableUnchanged ==
    [][ admission'.called /\ admission'.address \in trusted_ips
            => admission'.result = "admitted" /\ window_table' = window_table ]_vars

\* C14 witness: a trusted address was admitted after another address had
\* been counted up to the largest count.
C14_Witness ==
    /\ admission.called
    /\ admission.address \in trusted_ips
    /\ admission.result = "admitted"
    /\ window_table[admission.address] = 0
    /\ \E b \in Addresses \ trusted_ips : window_table[b] = MaxHits

\* C15: however the requests of one non-trusted address interleave, no more
\* than RATE_LIMIT_REQUESTS of them are admitted inside one window.
C15_AdmittedWithinCeiling ==
    \A a \in Addresses \ trusted_ips : handled[a] <= rate_limit_requests

\* C17: a provider call is attempted only for a request whose token was
\* verified, whose address the rate limiter admitted and whose prompt was
\* resolved; a request refused at one of these steps attempts none.
C17_OutboundOnlyAfterAllSteps ==
    \A r \in Slots :
        /\ req[r].outbound > 0
            => req[r].verified /\ req[r].limiter_checked /\ req[r].resolved
        /\ req[r].status \in {400, 401} => req[r].outbound = 0

\* ------------------------------------------------- prompt resolution: properties
\* The variable a replacement field refers to: the name itself, or the name
\* the conditional text of the built-in templates tests.
ReferencedVariable(s) ==
    CASE s = "additional_context if additional_context else 'None provided'" -> "additional_context"
      [] s = "language if language else 'Not specified'" -> "language"
      [] s = "context if context else 'None provided'" -> "context"
      [] OTHER -> s

\* The variables a template body refers to.
Referenced(template) ==
    {ReferencedVariable(template[i].s) : i \in {j \in DOMAIN template : template[j].kind = "field"}}

\* The body with every placeholder replaced by the value of its variable.
Substituted(template, data) ==
    [i \in DOMAIN template |->
        IF template[i].kind = "field" THEN data[ReferencedVariable(template[i].s)]
        ELSE template[i].s]

\* The failure for a variable the mapping lacks, and the names it gives.
IsMissingVariable(r) ==
    /\ ~r.ok
    /\ r.error = "PromptError"
    /\ r.message # <<>>
    /\ r.message[1] \in {"Missing required variables for prompt '", "Missing required variable '"}

NamedVariables(r) == r.missing \cup {r.message[i] : i \in DOMAIN r.message}

\* C21: resolve of a registered template with a mapping of exactly the
\* variables its body refers to succeeds and gives the body with every
\* placeholder replaced by its value.
C21_ExactVariablesResolve ==
    regOp.op = "resolve" /\ regOp.name \in DOMAIN PROMPTS
        /\ DOMAIN regOp.data = Referenced(PROMPTS[regOp.name].template)
        => /\ regOp.result.ok
           /\ regOp.result.value = Substituted(PROMPTS[regOp.name].template, regOp.data)

\* C22: resolve of a registered template with a mapping that lacks a variable
\* of the body fails as a missing variable and names a variable that is
\* lacking.
C22_OmittedVariableNamed ==
    regOp.op = "resolve" /\ regOp.name \in DOMAIN PROMPTS
        /\ Referenced(PROMPTS[regOp.name].template) \ DOMAIN regOp.data # {}
        => /\ IsMissingVariable(regOp.result)
           /\ NamedVariables(regOp.result)
                \cap (Referenced(PROMPTS[regOp.name].template) \ DOMAIN regOp.data) # {}

\* C23: resolve_literal fails as a missing variable for a text with a
\* placeholder the mapping lacks, the empty mapping included, and returns a
\* text without placeholders unchanged for the empty mapping.
C23_LiteralValidatedLikeTemplate ==
    regOp.op = "resolve_literal"
        => /\ Referenced(regOp.template) \ DOMAIN regOp.data # {}
                => IsMissingVariable(regOp.result)
           /\ Referenced(regOp.template) = {} /\ DOMAIN regOp.data = {}
                => regOp.result.ok /\ regOp.result.value = Raw(regOp.template)

Processed(r) ==
    /\ req[r].verified
    /\ req[r].stage \in {"calling", "done"}
    /\ req[r].prompt.prompt_name \in PromptName \cup {""}

BothSet(r) == req[r].prompt.prompt_name # "" /\ req[r].prompt.prompt_text # <<>>

NeitherSet(r) == req[r].prompt.prompt_name = "" /\ req[r].prompt.prompt_text = <<>>

Rejected400(r, error) ==
    /\ req[r].status = 400
    /\ req[r].error = error
    /\ ~req[r].resolved
    /\ req[r].outbound = 0

\* C25 (as claimed): a request with neither a template name nor a literal text,
\* and a request with both, are each rejected with a validation error; no
\* request with both set is resolved.
C25_ExactlyOneRequired ==
    \A r \in Slots :
        (Processed(r) /\ (NeitherSet(r) \/ BothSet(r)))
            => Rejected400(r, "ValidationError")

\* C25 (amended): a request with neither a template name nor a literal text is
\* rejected with a validation error; a request with both is processed as the
\* request naming the template, its literal text ignored: it is resolved to
\* the stored template formatted with its data, or refused with that
\* template's error.
C25_NameTakesPrecedence ==
    \A r \in Slots :
        /\ (Processed(r) /\ NeitherSet(r)) => Rejected400(r, "ValidationError")
        /\ (Processed(r) /\ BothSet(r))
            => LET st == GetStoredPrompt(PROMPTS, req[r].prompt.prompt_name,
                                         req[r].prompt.data)
               IN  IF st.ok
                   THEN req[r].resolved /\ req[r].messages = st.value
                   ELSE Rejected400(r, st.error)

\* C25 witness: a request with both fields set went on to the provider with
\* the stored template, not with its literal text.
C25_Witness ==
    \E r \in Slots :
        /\ Processed(r) /\ BothSet(r)
        /\ req[r].stage = "calling"
        /\ req[r].outbound = 1
        /\ req[r].messages # Raw(req[r].prompt.prompt_text)

\* ------------------------------------------------- registry: resolve beside mutation
\* The resolution of the one body b under the name, with the data of the call
\* in progress.
ResolutionOf(b) ==
    GetStoredPrompt(resolving.name :> [template |-> b, description |-> ""],
                    resolving.name, resolving.data)

\* C26: a resolve that runs beside update and remove of its template reads one
\* version of the body: while it is between validation and substitution the
\* entry it validated is still the registry's, the body it substitutes into is
\* the body it validated, and its result is the resolution of that one body.
C26_ResolveSeesOneVersion ==
    /\ resolving.stage = "validated"
        => BodyRead(PROMPTS, resolving.name) = resolving.checked
    /\ (resolving.stage = "done" /\ resolving.checked.found)
        => /\ resolving.substituted.found => resolving.substituted = resolving.checked
           /\ resolving.result = ResolutionOf(resolving.checked.template)

\* C26 witness: a resolve has validated and substituted, and an update of the
\* same name has since replaced the body it read.
C26_Witness ==
    /\ resolving.stage = "done"
    /\ resolving.substituted.found
    /\ resolving.result.ok
    /\ regOp.op = "update" /\ regOp.name = resolving.name /\ regOp.result.ok
    /\ BodyRead(PROMPTS, resolving.name) # resolving.checked

\* ------------------------------------------------- orchestrator: error kinds
\* C27 (as claimed): when the executor ended a call with RetryExhaustedError,
\* the failure process_request surfaces is not of the kind of a non-retryable
\* provider error (OpenRouterError): the two kinds stay distinct.
C27_ExhaustionStaysDistinct ==
    \A c \in calls :
        (raised[c].type = "RetryExhaustedError" /\ surfaced[c] # NoException)
            => surfaced[c].type # "OpenRouterError"

\* ------------------------------------------------- request pipeline: registered templates
\* The request in slot r is answered in this step.
Answered(r) == req[r].stage = "authenticated" /\ req'[r].stage \in {"calling", "done"}

\* C28 (as claimed): a request that names a template registered at run time
\* and supplies all its variables is resolved to the substituted body; once
\* the template has been removed the same request fails as not found.
C28_RegisteredTemplateUsable ==
    [][\A r \in Slots :
          LET name == req[r].prompt.prompt_name
              data == req[r].prompt.data
          IN  (Answered(r) /\ name \in CustomNames)
                 => IF name \in DOMAIN PROMPTS
                    THEN Variables(PROMPTS[name].template) \subseteq DOMAIN data
                            => /\ req'[r].resolved
                               /\ req'[r].messages = Format(PROMPTS[name].template, data).value
                    ELSE (regOp.op = "remove" /\ regOp.name = name /\ regOp.result.ok)
                            => /\ req'[r].error = "PromptError"
                               /\ req'[r].status \in {400, 404}]_vars

\* ------------------------------------------------- executor: termination and resources
Ended(c) == pc[c] \in {"returned", "raised"}

\* The attempts and delays of a call stay within the configured retries, and
\* a call that has ended has exactly one outcome and no delay after its last
\* attempt.
C29_Bounded ==
    \A c \in calls :
        /\ Len(hist[c]) <= max_retries + 1
        /\ Len(delays[c]) <= max_retries
        /\ Ended(c)
            => /\ Len(delays[c]) = Len(hist[c]) - 1
               /\ pc[c] = "returned"
                    => /\ raised[c] = NoException
                       /\ retval[c] = hist[c][Len(hist[c])]
                       /\ retval[c].status < 400
               /\ pc[c] = "raised"
                    => /\ retval[c] = NoResponse
                       /\ raised[c].type \in {"OpenRouterError", "RetryExhaustedError"}

\* C29: whatever the provider answers, a call makes at most R+1 attempts and
\* takes at most R delays, none after its final attempt, and it ends: in
\* exactly one of a returned success, an OpenRouterError and a
\* RetryExhaustedError.
C29_BoundedAndEnds ==
    /\ []C29_Bounded
    /\ \A c \in Calls : (pc[c] # "idle") ~> Ended(c)

\* C29 witness: a call with R = 3 ended after four attempts of mixed kinds
\* (rate-limited, timeout, rate-limited, then a fatal status) and three delays.
C29_Witness ==
    \E c \in calls :
        /\ max_retries = 3
        /\ Len(hist[c]) = 4
        /\ hist[c][1].status = 429
        /\ hist[c][2].kind = "TimeoutException"
        /\ hist[c][3].status = 429
        /\ hist[c][4].status = 503
        /\ pc[c] = "raised"
        /\ Len(delays[c]) = 3

\* ------------------------------------------------- executor: mixed failures
\* Every one of the first n attempts was rate-limited or hit a transient fault.
AllRetryable(h, n) == \A j \in 1..n : IsRateLimit(h[j]) \/ IsTransient(h[j])

====
